---- MODULE Spec2Model ----
(***************************************************************************)
(* Distribution planner: the upload / review / results wizard, the plan    *)
(* table's edit handlers, the review step's validation and submission, the *)
(* average-revenue calculation, the plan store and the ranking engine.     *)
(*                                                                         *)
(* An optional field (budgetCap?: number) is a set: {} is undefined and    *)
(* {n} is the number n.  Arrays are sequences.                             *)
(***************************************************************************)
EXTENDS Integers, Sequences, FiniteSets, TLC

\* ------------------------------------------------------------------ bounds

\* User events (edits, clicks) in one behaviour.
MaxUserActions == 3

\* ---------------------------------------------------------------- constants

PREDEFINED_TAGS == <<"Paid", "Mandatory", "FOC">>

\* The first two of the six predefined publishers.
PREDEFINED_PUBLISHERS == <<"JioCinema", "MyJio">>

\* Length of the averaging window in days.
WindowDays == 7

Tags == {PREDEFINED_TAGS[i] : i \in DOMAIN PREDEFINED_TAGS}

Publishers == {PREDEFINED_PUBLISHERS[i] : i \in DOMAIN PREDEFINED_PUBLISHERS}

Undefined == {}

Num(n) == {n}

Val(x) == CHOOSE n \in x : TRUE

\* ------------------------------------------------------- sequence helpers

Range(s) == {s[i] : i \in DOMAIN s}

Includes(s, x) == x \in Range(s)

RECURSIVE Filter(_, _)
Filter(s, keep) ==
    IF s = <<>> THEN <<>>
    ELSE IF Head(s) \in keep THEN <<Head(s)>> \o Filter(Tail(s), keep)
         ELSE Filter(Tail(s), keep)

\* ------------------------------------------------------------ text inputs

\* A number outside the modelled range stands for NaN; every reader tests
\* for it before it computes.
NaN == -999999

IsNaN(n) == n = NaN

\* The number Infinity.
Infinity == 999999

IsFinite(n) == n # NaN /\ n # Infinity

\* parseFloat on the texts a user can type into a number input.
ParseFloat(text) ==
    CASE text = "0" -> 0
      [] text = "7" -> 7
      [] text = "500" -> 500
      [] text = "-5" -> -5
      [] text = "1000" -> 1000
      [] text = "1,000" -> 1
      [] text = "Infinity" -> Infinity
      [] OTHER -> NaN

\* parseInt on the same texts.
ParseInt(text) == ParseFloat(text)

BudgetTexts == {"", "500", "-5", "abc"}

CountTexts == {"", "7"}

\* ------------------------------------------------------------- plan table

\* handleTagSelect without its reset of budgetCap.
ApplyTagTransition_KeepsBudgetCap(plan, tag) ==
    LET updatedPlan == [plan EXCEPT !.tags = <<tag>>, !.isEdited = TRUE]
    IN  CASE tag = "FOC" ->
               IF updatedPlan.clicksToBeDelivered = Undefined
               THEN [updatedPlan EXCEPT !.clicksToBeDelivered = Num(0)]
               ELSE updatedPlan
          [] tag = "Mandatory" ->
               IF updatedPlan.distributionCount = Undefined
               THEN [updatedPlan EXCEPT !.distributionCount = Num(0)]
               ELSE updatedPlan
          [] tag = "Paid" ->
               [updatedPlan EXCEPT !.budgetCap =
                    IF updatedPlan.budgetCap # Undefined THEN updatedPlan.budgetCap
                    ELSE Num(0)]
          [] OTHER -> updatedPlan

\* handleTagSelect after its early return: the updated plan.
ApplyTagTransition(plan, tag) ==
    LET updatedPlan == [plan EXCEPT !.tags = <<tag>>, !.isEdited = TRUE]
        reset ==
            IF tag \in {"FOC", "Mandatory"} /\ Includes(plan.tags, "Paid")
            THEN [updatedPlan EXCEPT !.budgetCap = Undefined]
            ELSE updatedPlan
    IN  CASE tag = "FOC" ->
               IF reset.clicksToBeDelivered = Undefined
               THEN [reset EXCEPT !.clicksToBeDelivered = Num(0)]
               ELSE reset
          [] tag = "Mandatory" ->
               IF reset.distributionCount = Undefined
               THEN [reset EXCEPT !.distributionCount = Num(0)]
               ELSE reset
          [] tag = "Paid" ->
               [reset EXCEPT !.budgetCap =
                    IF reset.budgetCap # Undefined THEN reset.budgetCap ELSE Num(0)]
          [] OTHER -> reset

\* handleBudgetChange: the budget cap written for a typed text.
BudgetOfText(value) ==
    LET numericValue == IF value = "" THEN 0 ELSE ParseFloat(value)
    IN  IF IsNaN(numericValue) THEN 0 ELSE numericValue

\* parseInt(value) || 0
CountOfText(value) ==
    LET n == ParseInt(value) IN IF IsNaN(n) \/ n = 0 THEN 0 ELSE n

\* handlePublisherChange: toggle one publisher of the list.
TogglePublisher(currentPublishers, publisher) ==
    IF Includes(currentPublishers, publisher)
    THEN Filter(currentPublishers, Publishers \ {publisher})
    ELSE Append(currentPublishers, publisher)

\* handlePlanUpdate: replace the plans whose planId is the updated plan's.
PlanUpdate(prevPlans, updatedPlan) ==
    [i \in DOMAIN prevPlans |->
        IF prevPlans[i].planId = updatedPlan.planId THEN updatedPlan ELSE prevPlans[i]]

\* ----------------------------------------------------------- review step

\* validatePlans without its publisher check.
PlanValid_IgnoresPublisher(plan) ==
    /\ Includes(plan.tags, "Paid") => plan.budgetCap # Undefined
    /\ Includes(plan.tags, "Mandatory") => plan.distributionCount # Undefined
    /\ Includes(plan.tags, "FOC") => plan.clicksToBeDelivered # Undefined

\* validatePlans, for one plan: none of its checks fails.
PlanValid(plan) ==
    /\ Len(plan.publisher) # 0
    /\ Includes(plan.tags, "Paid") => plan.budgetCap # Undefined
    /\ Includes(plan.tags, "Mandatory") => plan.distributionCount # Undefined
    /\ Includes(plan.tags, "FOC") => plan.clicksToBeDelivered # Undefined

\* validatePlans, for one plan: the times unfilledCount is incremented.
PlanUnfilled(plan) ==
      (IF Len(plan.publisher) = 0 THEN 1 ELSE 0)
    + (IF Includes(plan.tags, "Paid") /\ plan.budgetCap = Undefined THEN 1 ELSE 0)
    + (IF Includes(plan.tags, "Mandatory") /\ plan.distributionCount = Undefined
       THEN 1 ELSE 0)
    + (IF Includes(plan.tags, "FOC") /\ plan.clicksToBeDelivered = Undefined
       THEN 1 ELSE 0)

\* validatePlans: isValid.
ValidatePlans(ps) == \A i \in DOMAIN ps : PlanValid(ps[i])

RECURSIVE UnfilledCount(_)
UnfilledCount(ps) ==
    IF ps = <<>> THEN 0 ELSE PlanUnfilled(Head(ps)) + UnfilledCount(Tail(ps))

\* x || 0 for an optional count.
OrZero(x) == IF x = Undefined \/ IsNaN(Val(x)) THEN 0 ELSE Val(x)

\* handleProcessData: the CSV record built for one plan.
CsvRecord(plan) ==
    [planId |-> plan.planId,
     publisher |-> plan.publisher,
     brand_name |-> plan.brand_name,
     subcategory |-> plan.subcategory,
     tags |-> plan.tags,
     budgetCap |->
        IF Includes(plan.tags, "Paid")
        THEN (IF plan.budgetCap # Undefined THEN Val(plan.budgetCap) ELSE 0)
        ELSE 0,
     distributionCount |->
        IF Includes(plan.tags, "Mandatory") THEN OrZero(plan.distributionCount) ELSE 0,
     clicksToBeDelivered |->
        IF Includes(plan.tags, "FOC") THEN OrZero(plan.clicksToBeDelivered) ELSE 0]

CsvData(ps) == [i \in DOMAIN ps |-> CsvRecord(ps[i])]

\* ------------------------------------------------------- average revenue

\* revenueByPlan[key].totalRevenue after the forEach over the records.
RECURSIVE TotalRevenue(_, _)
TotalRevenue(records, key) ==
    IF records = <<>> THEN 0
    ELSE (IF Head(records).planId = key THEN Head(records).revenue ELSE 0)
         + TotalRevenue(Tail(records), key)

\* revenueByPlan[key].count
RECURSIVE RecordCount(_, _)
RecordCount(records, key) ==
    IF records = <<>> THEN 0
    ELSE (IF Head(records).planId = key THEN 1 ELSE 0)
         + RecordCount(Tail(records), key)

\* Math.round(n / d) for n >= 0, d > 0: halves round up.
RoundDiv(n, d) == (2 * n + d) \div (2 * d)

\* The earlier algorithm: the total divided by the number of records.
WithAvgRevenue_DividesByCount(plan, records) ==
    LET total == TotalRevenue(records, plan.planId)
    IN  IF RecordCount(records, plan.planId) > 0 /\ total > 0
        THEN [plan EXCEPT !.avgRevenue =
                 Num(RoundDiv(total, RecordCount(records, plan.planId)))]
        ELSE plan

\* calculateAverageRevenue: the plan with its average revenue applied.
WithAvgRevenue(plan, records) ==
    LET total == TotalRevenue(records, plan.planId)
    IN  IF RecordCount(records, plan.planId) > 0 /\ total > 0
        THEN [plan EXCEPT !.avgRevenue = Num(RoundDiv(total, WindowDays))]
        ELSE plan

\* Grouping by planId and publisher: a plan gets the records of its own
\* publishers only.
UpdatedPlans_GroupsByPublisher(inventory, records) ==
    [i \in DOMAIN inventory |->
        WithAvgRevenue(inventory[i],
                       SelectSeq(records,
                                 LAMBDA r : Includes(inventory[i].publisher, r.publisher)))]

\* calculateAverageRevenue: updatedPlans.
UpdatedPlans(inventory, records) ==
    [i \in DOMAIN inventory |-> WithAvgRevenue(inventory[i], records)]

\* ------------------------------------------------------------- plan store

\* savePlanToFirebase: the record it builds.
PlanRecord(plan) ==
    [planId |-> plan.planId,
     tags |-> plan.tags,
     publisher |-> plan.publisher,
     subcategory |-> plan.subcategory,
     brand_name |-> plan.brand_name,
     budgetCap |->
        IF Includes(plan.tags, "Paid")
        THEN (IF plan.budgetCap # Undefined THEN plan.budgetCap ELSE Num(0))
        ELSE Undefined,
     distributionCount |->
        IF Includes(plan.tags, "Mandatory") THEN plan.distributionCount ELSE Undefined,
     clicksToBeDelivered |->
        IF Includes(plan.tags, "FOC") THEN plan.clicksToBeDelivered ELSE Undefined]

\* savePlanToFirebase without its publisher validation.
SaveThrows_IgnoresPublisher(plan) ==
    LET planRecord == PlanRecord(plan)
    IN  \/ Includes(plan.tags, "Paid") /\ planRecord.budgetCap = Undefined
        \/ Includes(plan.tags, "Mandatory") /\ planRecord.distributionCount = Undefined
        \/ Includes(plan.tags, "FOC") /\ planRecord.clicksToBeDelivered = Undefined

\* savePlanToFirebase: one of its validations throws.
SaveThrows(plan) ==
    LET planRecord == PlanRecord(plan)
    IN  \/ Len(plan.publisher) = 0
        \/ Includes(plan.tags, "Paid") /\ planRecord.budgetCap = Undefined
        \/ Includes(plan.tags, "Mandatory") /\ planRecord.distributionCount = Undefined
        \/ Includes(plan.tags, "FOC") /\ planRecord.clicksToBeDelivered = Undefined

\* The documents of a collection with the given planId, oldest first.
RECURSIVE DocsOf(_, _)
DocsOf(docs, planId) ==
    IF docs = <<>> THEN <<>>
    ELSE (IF Head(docs).planId = planId THEN <<Head(docs)>> ELSE <<>>)
         \o DocsOf(Tail(docs), planId)

\* getLatestPlanData ordering by ascending timestamp: the first saved record.
GetLatestPlanData_Oldest(docs, planId) ==
    LET found == DocsOf(docs, planId)
    IN  IF found = <<>> THEN {}
        ELSE LET data == found[1]
             IN  {[planId |-> data.planId,
                   tags |-> data.tags,
                   publisher |-> data.publisher,
                   subcategory |-> data.subcategory,
                   brand_name |-> data.brand_name,
                   budgetCap |->
                      IF Includes(data.tags, "Paid") THEN data.budgetCap ELSE Undefined,
                   distributionCount |->
                      IF Includes(data.tags, "Mandatory") THEN data.distributionCount
                      ELSE Undefined,
                   clicksToBeDelivered |->
                      IF Includes(data.tags, "FOC") THEN data.clicksToBeDelivered
                      ELSE Undefined,
                   avgRevenue |-> Undefined,
                   isEdited |-> FALSE]}

\* getLatestPlanData reading the budget cap with ||: a cap of 0 is dropped.
GetLatestPlanData_ZeroBudgetCapUnset(docs, planId) ==
    LET found == DocsOf(docs, planId)
    IN  IF found = <<>> THEN {}
        ELSE LET data == found[Len(found)]
             IN  {[planId |-> data.planId,
                   tags |-> data.tags,
                   publisher |-> data.publisher,
                   subcategory |-> data.subcategory,
                   brand_name |-> data.brand_name,
                   budgetCap |->
                      IF Includes(data.tags, "Paid") /\ data.budgetCap # Num(0)
                      THEN data.budgetCap ELSE Undefined,
                   distributionCount |->
                      IF Includes(data.tags, "Mandatory") THEN data.distributionCount
                      ELSE Undefined,
                   clicksToBeDelivered |->
                      IF Includes(data.tags, "FOC") THEN data.clicksToBeDelivered
                      ELSE Undefined,
                   avgRevenue |-> Undefined,
                   isEdited |-> FALSE]}

\* getLatestPlanData: {} for null, {plan} for the latest saved record.
GetLatestPlanData(docs, planId) ==
    LET found == DocsOf(docs, planId)
    IN  IF found = <<>> THEN {}
        ELSE LET data == found[Len(found)]
             IN  {[planId |-> data.planId,
                   tags |-> data.tags,
                   publisher |-> data.publisher,
                   subcategory |-> data.subcategory,
                   brand_name |-> data.brand_name,
                   budgetCap |->
                      IF Includes(data.tags, "Paid") THEN data.budgetCap ELSE Undefined,
                   distributionCount |->
                      IF Includes(data.tags, "Mandatory") THEN data.distributionCount
                      ELSE Undefined,
                   clicksToBeDelivered |->
                      IF Includes(data.tags, "FOC") THEN data.clicksToBeDelivered
                      ELSE Undefined,
                   avgRevenue |-> Undefined,
                   isEdited |-> FALSE]}

\* -------------------------------------------------------- inventory parser

\* parseInventoryReport, for one row: the stored plan when there is one, else a
\* new plan from the row.
ParseInventoryRow(row, docs) ==
    LET existingPlan == GetLatestPlanData(docs, row.planId)
        budgetCap == IF row.budgetCap = Undefined \/ Val(row.budgetCap) = 0
                     THEN Undefined ELSE row.budgetCap
    IN  IF existingPlan # {} THEN [Val(existingPlan) EXCEPT !.isEdited = FALSE]
        ELSE [planId |-> row.planId,
              subcategory |-> row.subcategory,
              brand_name |-> row.brand_name,
              budgetCap |-> IF budgetCap # Undefined THEN budgetCap ELSE Num(0),
              tags |-> <<>>,
              publisher |-> <<>>,
              distributionCount |-> Num(0),
              clicksToBeDelivered |-> Num(0),
              avgRevenue |-> Undefined,
              isEdited |-> FALSE]

ParseInventoryReport(rows, docs) ==
    [i \in DOMAIN rows |-> ParseInventoryRow(rows[i], docs)]

\* processInventoryFile: the parsed file is accepted.
InventoryAccepted(parsedData) ==
    /\ Len(parsedData) # 0
    /\ \A i \in DOMAIN parsedData :
          parsedData[i].planId # "" /\ parsedData[i].subcategory # ""

\* ------------------------------------------------------------ sheet rows

\* A cell of a sheet row: missing, a number or a text.
Absent == [kind |-> "absent", num |-> 0, text |-> ""]

NumCell(n) == [kind |-> "number", num |-> n, text |-> ""]

TextCell(t) == [kind |-> "string", num |-> 0, text |-> t]

\* The headers the parsers look up for a field, in the order of its || chain.
Aliases(field) ==
    CASE field = "planId" -> <<"planId", "Plan ID", "plan_id", "PlanId">>
      [] field = "subcategory" ->
             <<"subcategory", "Subcategory", "SubCategory", "sub_category">>
      [] field = "brand_name" -> <<"brand_name", "Brand Name", "BrandName", "brand">>
      [] field = "budgetCap" -> <<"budgetCap", "Budget Cap", "budget_cap">>
      [] field = "historical planId" -> <<"Plan ID", "plan_id", "PlanId", "PLAN_ID">>
      [] field = "historical publisher" ->
             <<"Publisher", "publisher", "dist_business", "PUBLISHER">>
      [] field = "clicks" ->
             <<"Clicks", "clicks", "Total_Clicks", "click_count", "Click_Count",
               "CLICKS">>
      [] field = "distribution_count" ->
             <<"Distribution_Count", "distribution_count", "Total_Distribution_Count",
               "distribution_count", "Distribution Count", "DISTRIBUTION_COUNT",
               "Distribution_count", "Distribuion_count">>
      [] field = "revenue" ->
             <<"Revenue", "revenue", "Total_Revenue", "REVENUE", "Total Revenue",
               "TotalRevenue">>

AllHeaders ==
    UNION {Range(Aliases(field)) :
              field \in {"planId", "subcategory", "brand_name", "budgetCap",
                         "historical planId", "historical publisher", "clicks",
                         "distribution_count", "revenue"}}

\* A row of sheet_to_json with the given cells and no other.
RawRow(cells) ==
    [h \in AllHeaders |-> IF h \in DOMAIN cells THEN cells[h] ELSE Absent]

\* A value is truthy: not undefined, 0, NaN or ''.
Truthy(cell) ==
    \/ cell.kind = "number" /\ cell.num # 0 /\ ~IsNaN(cell.num)
    \/ cell.kind = "string" /\ cell.text # ""

\* a || b || ... || z: the first truthy operand, else the last one.
RECURSIVE OrChain(_)
OrChain(cells) ==
    IF Len(cells) = 1 \/ Truthy(Head(cells)) THEN Head(cells) ELSE OrChain(Tail(cells))

CellsOf(row, aliases) == [k \in DOMAIN aliases |-> row[aliases[k]]]

\* String(n) for the numbers of the sheets.
NumText(n) ==
    CASE n = 0 -> "0"
      [] n = 7 -> "7"
      [] n = 500 -> "500"
      [] n = 700 -> "700"
      [] n = 1000 -> "1000"
      [] OTHER -> "NaN"

\* String(value)
StringOf(cell) ==
    CASE cell.kind = "string" -> cell.text
      [] cell.kind = "number" -> NumText(cell.num)
      [] OTHER -> "undefined"

\* parseFloat(String(value))
ParseFloatOfCell(cell) ==
    IF cell.kind = "number" THEN cell.num ELSE ParseFloat(StringOf(cell))

\* value.replace(/,/g, '')
StripCommas(text) == IF text = "1,000" THEN "1000" ELSE text

\* parseFloat of a text, in tenths: the one text with a fraction is 12.6.
ParseFloat10(text) ==
    IF text = "12.6" THEN 126
    ELSE IF IsFinite(ParseFloat(text)) THEN 10 * ParseFloat(text)
    ELSE ParseFloat(text)

\* Math.round of a number given in tenths.
MathRound10(tenths) ==
    IF IsFinite(tenths) THEN (tenths + 5) \div 10 ELSE tenths

\* parseHistoricalData: one numeric field of a row.
HistoricalNumber(row, aliases) ==
    LET value == OrChain(CellsOf(row, aliases) \o <<NumCell(0)>>)
        parsed == IF value.kind = "string" THEN ParseFloat10(StripCommas(value.text))
                  ELSE IF IsNaN(value.num) \/ value.num = 0 THEN 0
                  ELSE IF IsFinite(value.num) THEN 10 * value.num
                  ELSE value.num
    IN  IF IsNaN(parsed) THEN 0 ELSE MathRound10(parsed)

\* parseHistoricalData: the record of one row.
ReadHistoricalRow(row) ==
    [planId |-> StringOf(OrChain(CellsOf(row, Aliases("historical planId"))
                                 \o <<TextCell("")>>)),
     publisher |-> StringOf(OrChain(CellsOf(row, Aliases("historical publisher"))
                                    \o <<TextCell("")>>)),
     revenue |-> HistoricalNumber(row, Aliases("revenue")),
     distribution_count |-> HistoricalNumber(row, Aliases("distribution_count")),
     clicks |-> HistoricalNumber(row, Aliases("clicks"))]

ParseHistoricalData(rows) == [i \in DOMAIN rows |-> ReadHistoricalRow(rows[i])]

\* parseInventoryReport: what it reads from one row.
ReadInventoryRow(row) ==
    LET budgetCap == OrChain(CellsOf(row, Aliases("budgetCap")))
    IN  [planId |-> StringOf(OrChain(CellsOf(row, Aliases("planId")) \o <<TextCell("")>>)),
         subcategory |-> StringOf(OrChain(CellsOf(row, Aliases("subcategory"))
                                          \o <<TextCell("")>>)),
         brand_name |-> StringOf(OrChain(CellsOf(row, Aliases("brand_name"))
                                         \o <<TextCell("")>>)),
         budgetCap |-> IF budgetCap.kind # "absent"
                       THEN Num(ParseFloatOfCell(budgetCap)) ELSE Num(0)]

ReadInventorySheet(rows) == [i \in DOMAIN rows |-> ReadInventoryRow(rows[i])]

\* ------------------------------------------------------------------ inputs

InventoryRow(id, sub, budget) ==
    [planId |-> id, subcategory |-> sub, brand_name |-> "Brand", budgetCap |-> budget]

\* The inventory files an operator uploads: two rows, the first with or without
\* a budget cap column.
InventoryFiles ==
    {<<InventoryRow("P1", "S1", b), InventoryRow("P2", "S2", Undefined)>> :
        b \in {Undefined, Num(500)}}

HistoricalRecord(id, pub, rev, dist, clk) ==
    [planId |-> id, publisher |-> pub, revenue |-> rev,
     distribution_count |-> dist, clicks |-> clk]

\* The parsed historical files: none, one record, and records of two publishers
\* for one plan with totals that 7 does not divide.
HistoricalFiles ==
    {<<>>,
     <<HistoricalRecord("P1", "JioCinema", 700, 1000, 50)>>,
     <<HistoricalRecord("P1", "JioCinema", 700, 1000, 50),
       HistoricalRecord("P1", "MyJio", 10, 100, 5),
       HistoricalRecord("P2", "MyJio", 3, 0, 0),
       HistoricalRecord("P9", "MyJio", 50, 10, 1)>>,
     <<HistoricalRecord("P2", "JioCinema", 0, 10, 0),
       HistoricalRecord("P1", "MyJio", 2, 10, 1),
       HistoricalRecord("P1", "MyJio", 2, 10, 1),
       HistoricalRecord("P1", "JioCinema", 2, 10, 1)>>}

\* A plan as an earlier session left it in the review step.
SavedPlan(id, sub, tag, budget, dist, clk) ==
    [planId |-> id, subcategory |-> sub, brand_name |-> "Brand",
     publisher |-> <<"JioCinema">>, tags |-> <<tag>>,
     budgetCap |-> budget, distributionCount |-> dist, clicksToBeDelivered |-> clk,
     avgRevenue |-> Undefined, isEdited |-> TRUE]

\* The plan store when the session starts: what earlier sessions saved.
InitialStores ==
    {first \o second :
        first \in {<<>>,
                   <<PlanRecord(SavedPlan("P1", "S1", "Paid", Num(500), Num(0), Num(0)))>>,
                   <<PlanRecord(SavedPlan("P1", "S1", "FOC", Undefined, Num(0), Num(7)))>>,
                   <<PlanRecord(SavedPlan("P1", "S1", "Mandatory", Undefined, Num(7),
                                          Num(0)))>>},
        second \in {<<>>,
                    <<PlanRecord(SavedPlan("P2", "S2", "Paid", Num(0), Num(0), Num(0)))>>}}

\* ------------------------------------------------------------------- state

VARIABLES
    activeStep,         \* Home: the wizard's step, 0..2
    inventoryData,      \* Home: the parsed inventory, <<>> for null
    historicalFile,     \* Home: the historical file's records
    plans,              \* DataReview: the plan list
    loadingStats,       \* DataReview: the average-revenue calculation is running
    isSubmitting,       \* DataReview
    warning,            \* DataReview: {} or {unfilledCount}
    firebaseSaveStatus, \* DataReview: [success, failed]
    store,              \* the plans collection, oldest document first
    inFlight,           \* process-data requests sent and not answered
    mountId,            \* the DataReview instance now mounted (0: none yet)
    nUserActions,       \* user events so far
    scoredPlans,        \* ranking service: the scored plans given to the Ranker
    rankingData,        \* ranking service: {} or {the RankingResult}
    weights,            \* apiService.processData: its weights argument, {} or {w}
    rawInventory,       \* the inventory sheet's rows as sheet_to_json gives them
    rawHistorical,      \* the historical sheet's rows as sheet_to_json gives them
    searchQuery,        \* PlanTable: the text of the search box
    inventoryFile,      \* FileUpload: {} or {the inventory file now selected}
    uploadedInventoryData, \* FileUpload: inventoryData, {} or {the parsed plans}
    parsing             \* FileUpload: the files whose read has not completed

vars == <<activeStep, inventoryData, historicalFile, plans, loadingStats,
          isSubmitting, warning, firebaseSaveStatus, store, inFlight, mountId,
          nUserActions, scoredPlans, rankingData, weights, rawInventory,
          rawHistorical, searchQuery, inventoryFile, uploadedInventoryData,
          parsing>>

\* The ranking service, the raw sheets, the search box and the upload form.
rankVars == <<scoredPlans, rankingData, weights, rawInventory, rawHistorical,
              searchQuery, inventoryFile, uploadedInventoryData, parsing>>

\* An empty search box and an empty upload form.
NoFormInput ==
    /\ searchQuery = ""
    /\ inventoryFile = Undefined
    /\ uploadedInventoryData = Undefined
    /\ parsing = {}

\* No call of the API service and no sheet outside the wizard's own state.
NoServiceInput ==
    /\ weights = Undefined
    /\ rawInventory = <<>>
    /\ rawHistorical = <<>>
    /\ NoFormInput

homeVars == <<activeStep, inventoryData, historicalFile>>

submitVars == <<isSubmitting, warning, firebaseSaveStatus, store, inFlight>>

Init ==
    /\ activeStep = 0
    /\ inventoryData = <<>>
    /\ historicalFile = <<>>
    /\ plans = <<>>
    /\ loadingStats = FALSE
    /\ isSubmitting = FALSE
    /\ warning = Undefined
    /\ firebaseSaveStatus = [success |-> 0, failed |-> 0]
    /\ store \in InitialStores
    /\ inFlight = <<>>
    /\ mountId = 0
    /\ nUserActions = 0
    /\ scoredPlans = <<>>
    /\ rankingData = Undefined
    /\ NoServiceInput

UserActs ==
    /\ nUserActions < MaxUserActions
    /\ nUserActions' = nUserActions + 1

\* DataReview mounts: useState initial values, then the effect on inventoryData.
MountDataReview(inventory) ==
    /\ plans' = inventory
    /\ loadingStats' = TRUE
    /\ isSubmitting' = FALSE
    /\ warning' = Undefined
    /\ firebaseSaveStatus' = [success |-> 0, failed |-> 0]
    /\ mountId' = mountId + 1

\* DataReview unmounts: its state is gone.
UnmountDataReview ==
    /\ plans' = <<>>
    /\ loadingStats' = FALSE
    /\ isSubmitting' = FALSE
    /\ warning' = Undefined
    /\ firebaseSaveStatus' = [success |-> 0, failed |-> 0]
    /\ mountId' = mountId

\* FileUpload.handleSubmit with both files chosen and parsed, then
\* Home.handleFileProcessed.
HandleFileProcessed ==
    /\ activeStep = 0
    /\ UserActs
    /\ \E rows \in InventoryFiles, records \in HistoricalFiles :
          LET parsedData == ParseInventoryReport(rows, store)
          IN  /\ InventoryAccepted(parsedData)
              /\ inventoryData' = parsedData
              /\ historicalFile' = records
              /\ activeStep' = 1
              /\ MountDataReview(parsedData)
    /\ UNCHANGED <<rankVars, store, inFlight>>

\* calculateAverageRevenue completes.
CalculateAverageRevenue ==
    /\ activeStep = 1
    /\ loadingStats
    /\ loadingStats' = FALSE
    /\ plans' = IF Len(historicalFile) = 0 THEN plans
                ELSE UpdatedPlans(inventoryData, historicalFile)
    /\ UNCHANGED <<rankVars, homeVars, submitVars, mountId, nUserActions>>

\* The characters of the texts that plan ids, subcategories, brand names and
\* search queries are drawn from.
Chars(text) ==
    CASE text = "" -> <<>>
      [] text = "P1" -> <<"P", "1">>
      [] text = "P2" -> <<"P", "2">>
      [] text = "P3" -> <<"P", "3">>
      [] text = "S1" -> <<"S", "1">>
      [] text = "S2" -> <<"S", "2">>
      [] text = "s1" -> <<"s", "1">>
      [] text = "Brand" -> <<"B", "r", "a", "n", "d">>
      [] text = "brand" -> <<"b", "r", "a", "n", "d">>
      [] text = "A,B" -> <<"A", ",", "B">>
      [] OTHER -> <<text>>

\* toLowerCase, character by character.
ToLowerCase(chars) ==
    [k \in DOMAIN chars |->
        CASE chars[k] = "P" -> "p"
          [] chars[k] = "S" -> "s"
          [] chars[k] = "B" -> "b"
          [] chars[k] = "A" -> "a"
          [] OTHER -> chars[k]]

\* text.toLowerCase().includes(query.toLowerCase())
TextIncludes(text, query) ==
    LET t == ToLowerCase(Chars(text))
        q == ToLowerCase(Chars(query))
    IN  \E k \in 0..(Len(t) - Len(q)) : SubSeq(t, k + 1, k + Len(q)) = q

\* PlanTable: filteredPlans, the rows displayed for a search query.
FilteredPlans(ps, query) ==
    SelectSeq(ps, LAMBDA plan : \/ TextIncludes(plan.planId, query)
                               \/ TextIncludes(plan.subcategory, query)
                               \/ TextIncludes(plan.brand_name, query))

\* The queries typed into the search box.
SearchQueries == {"", "P2", "s1", "brand"}

\* PlanTable: the search box changes.
HandleSearchChange(query) ==
    /\ activeStep = 1
    /\ Len(plans) # 0
    /\ UserActs
    /\ searchQuery' = query
    /\ UNCHANGED <<homeVars, plans, loadingStats, submitVars, mountId, scoredPlans,
                   rankingData, weights, rawInventory, rawHistorical, inventoryFile,
                   uploadedInventoryData, parsing>>

\* An edit handler of the plan table ends in onPlanUpdate.  A handler is called
\* with the index of a displayed row, filteredPlans.map((plan, index) => ...),
\* and reads plans[index].
OnPlanUpdate(updatedPlan) ==
    /\ plans' = PlanUpdate(plans, updatedPlan)
    /\ UNCHANGED <<rankVars, homeVars, loadingStats, submitVars, mountId>>

HandleTagSelect(index, tag) ==
    /\ activeStep = 1
    /\ index \in DOMAIN FilteredPlans(plans, searchQuery)
    /\ UserActs
    /\ IF Includes(plans[index].tags, tag) /\ Len(plans[index].tags) = 1
       THEN UNCHANGED <<rankVars, homeVars, plans, loadingStats, submitVars, mountId>>
       ELSE OnPlanUpdate(ApplyTagTransition(plans[index], tag))

HandleBudgetChange(index, value) ==
    /\ activeStep = 1
    /\ index \in DOMAIN FilteredPlans(plans, searchQuery)
    /\ ~Includes(FilteredPlans(plans, searchQuery)[index].tags, "FOC")
    /\ ~Includes(FilteredPlans(plans, searchQuery)[index].tags, "Mandatory")
    /\ UserActs
    /\ IF ~Includes(plans[index].tags, "Paid")
       THEN UNCHANGED <<rankVars, homeVars, plans, loadingStats, submitVars, mountId>>
       ELSE OnPlanUpdate([plans[index] EXCEPT !.budgetCap = Num(BudgetOfText(value)),
                                              !.isEdited = TRUE])

HandlePublisherChange(index, publisher) ==
    /\ activeStep = 1
    /\ index \in DOMAIN FilteredPlans(plans, searchQuery)
    /\ UserActs
    /\ OnPlanUpdate([plans[index] EXCEPT
            !.publisher = TogglePublisher(plans[index].publisher, publisher),
            !.isEdited = TRUE])

HandleSelectAllPublishers(index) ==
    /\ activeStep = 1
    /\ index \in DOMAIN FilteredPlans(plans, searchQuery)
    /\ UserActs
    /\ OnPlanUpdate([plans[index] EXCEPT !.publisher = PREDEFINED_PUBLISHERS,
                                         !.isEdited = TRUE])

HandleClearAllPublishers(index) ==
    /\ activeStep = 1
    /\ index \in DOMAIN FilteredPlans(plans, searchQuery)
    /\ UserActs
    /\ OnPlanUpdate([plans[index] EXCEPT !.publisher = <<>>, !.isEdited = TRUE])

\* The distribution count input is rendered in the row of a Mandatory plan only.
HandleDistributionCountChange(index, value) ==
    /\ activeStep = 1
    /\ index \in DOMAIN FilteredPlans(plans, searchQuery)
    /\ Includes(FilteredPlans(plans, searchQuery)[index].tags, "Mandatory")
    /\ UserActs
    /\ OnPlanUpdate([plans[index] EXCEPT !.distributionCount = Num(CountOfText(value)),
                                         !.isEdited = TRUE])

\* The clicks input is rendered in the row of an FOC plan only.
HandleClicksToBeDeliveredChange(index, value) ==
    /\ activeStep = 1
    /\ index \in DOMAIN FilteredPlans(plans, searchQuery)
    /\ Includes(FilteredPlans(plans, searchQuery)[index].tags, "FOC")
    /\ UserActs
    /\ OnPlanUpdate([plans[index] EXCEPT !.clicksToBeDelivered = Num(CountOfText(value)),
                                         !.isEdited = TRUE])

\* -------------------------------------------------------------- submission

\* saveAllPlansToFirebase: the documents added, in list order.  rejected holds
\* the indexes (counted from the end of the list) whose addDoc fails.
RECURSIVE SavedDocs(_, _)
SavedDocs(ps, rejected) ==
    IF ps = <<>> THEN <<>>
    ELSE (IF SaveThrows(Head(ps)) \/ Len(ps) \in rejected THEN <<>>
          ELSE <<PlanRecord(Head(ps))>>)
         \o SavedDocs(Tail(ps), rejected)

\* A loop that gives up at the first failed save: one failure at most.
SaveStatus_FirstFailureEndsTheLoop(ps, rejected) ==
    LET successCount == Len(SavedDocs(ps, rejected))
    IN  [success |-> successCount,
         failed |-> IF successCount < Len(ps) THEN 1 ELSE 0]

\* saveAllPlansToFirebase: its return value.
SaveStatus(ps, rejected) ==
    LET successCount == Len(SavedDocs(ps, rejected))
    IN  [success |-> successCount, failed |-> Len(ps) - successCount]

\* The default of each weight, in hundredths.
DefaultWeight == 33

\* Caller's weights, in hundredths.
WeightValues == {0, 33, 50, 100}

\* weights?.ctr || 0.33
WeightOrDefault(w) == IF w = Undefined \/ Val(w) = 0 THEN DefaultWeight ELSE Val(w)

\* apiService.processData: backendWeights for a weights argument ({} when the
\* caller passes none).
BackendWeights(w) ==
    [CTR |-> WeightOrDefault(IF w = Undefined THEN Undefined ELSE Val(w).ctr),
     EPC |-> WeightOrDefault(IF w = Undefined THEN Undefined ELSE Val(w).epc),
     Revenue |-> WeightOrDefault(IF w = Undefined THEN Undefined ELSE Val(w).revenue)]

\* ------------------------------------------------------- CSV hand-off

\* handleProcessData: the columns of the CSV file, in order.
CsvHeaders ==
    <<"planId", "publisher", "budgetCap", "brand_name", "subcategory", "tags",
      "distributionCount", "clicksToBeDelivered">>

\* Array.prototype.join on texts given as character sequences.
RECURSIVE Join(_, _)
Join(parts, separator) ==
    IF parts = <<>> THEN <<>>
    ELSE IF Len(parts) = 1 THEN parts[1]
    ELSE parts[1] \o <<separator>> \o Join(Tail(parts), separator)

\* String.prototype.split on a one-character separator: the empty text gives
\* one empty part.
RECURSIVE Split(_, _)
Split(chars, separator) ==
    IF \A k \in DOMAIN chars : chars[k] # separator THEN <<chars>>
    ELSE LET k == CHOOSE k \in DOMAIN chars :
                     /\ chars[k] = separator
                     /\ \A j \in 1..(k - 1) : chars[j] # separator
         IN  <<SubSeq(chars, 1, k - 1)>>
             \o Split(SubSeq(chars, k + 1, Len(chars)), separator)

\* handleProcessData: row[header] as join writes it. A number is one token,
\* its decimal text.
CsvCell(record, header) ==
    CASE header = "planId" -> Chars(record.planId)
      [] header = "publisher" ->
             Join([k \in DOMAIN record.publisher |-> Chars(record.publisher[k])], ";")
      [] header = "budgetCap" -> <<ToString(record.budgetCap)>>
      [] header = "brand_name" -> Chars(record.brand_name)
      [] header = "subcategory" -> Chars(record.subcategory)
      [] header = "tags" ->
             Join([k \in DOMAIN record.tags |-> Chars(record.tags[k])], ";")
      [] header = "distributionCount" -> <<ToString(record.distributionCount)>>
      [] header = "clicksToBeDelivered" -> <<ToString(record.clicksToBeDelivered)>>

\* handleProcessData: csvString, the header line and one line per record.
CsvString(csvData) ==
    Join(<<Join([h \in DOMAIN CsvHeaders |-> <<CsvHeaders[h]>>], ",")>>
         \o [i \in DOMAIN csvData |->
                Join([h \in DOMAIN CsvHeaders |-> CsvCell(csvData[i], CsvHeaders[h])],
                     ",")],
         "\n")

\* processData: normalizedUserInput, from the text of the user input file.
\* A publisher or tags cell is split on ';' when it holds one; a number cell is
\* the parseFloat of its text, 0 for NaN (the texts of the model that start
\* with a digit or a sign are the number tokens). A line of csvString has at
\* least as many cells as there are headers, so that no values[index] is
\* undefined.
NormalizedUserInput(text) ==
    LET lines == Split(text, "\n")
        headers == Split(lines[1], ",")
        rows == SelectSeq(Tail(lines), LAMBDA line : line # <<>>)
        Cell(line, header) ==
            Split(line, ",")[CHOOSE h \in DOMAIN headers : headers[h] = <<header>>]
        List(cell) == IF Includes(cell, ";") THEN Split(cell, ";") ELSE <<cell>>
        Number(cell) ==
            LET parsed == IF cell = <<>> THEN NaN ELSE ParseFloat(cell[1])
            IN  IF IsNaN(parsed) THEN 0 ELSE parsed
    IN  [i \in DOMAIN rows |->
            [plan_id |-> Cell(rows[i], "planId"),
             publisher |-> List(Cell(rows[i], "publisher")),
             tags |-> List(Cell(rows[i], "tags")),
             budget_cap |-> Number(Cell(rows[i], "budgetCap")),
             subcategory |-> Cell(rows[i], "subcategory"),
             brand_name |-> Cell(rows[i], "brand_name"),
             distribution |-> Number(Cell(rows[i], "distributionCount")),
             clicks_to_be_delivered |-> Number(Cell(rows[i], "clicksToBeDelivered"))]]

\* handleProcessData up to the process-data request.  The saves and the request
\* read only the plan list the handler was called with, so they are taken in
\* one step with the click.
HandleProcessData ==
    /\ activeStep = 1
    /\ ~isSubmitting
    /\ Len(plans) # 0
    /\ UserActs
    /\ IF ~ValidatePlans(plans)
       THEN /\ warning' = Num(UnfilledCount(plans))
            /\ UNCHANGED <<isSubmitting, firebaseSaveStatus, store, inFlight>>
       ELSE \E rejected \in SUBSET (DOMAIN plans) :
               /\ warning' = Undefined
               /\ isSubmitting' = TRUE
               /\ store' = store \o SavedDocs(plans, rejected)
               /\ firebaseSaveStatus' = SaveStatus(plans, rejected)
               /\ inFlight' = Append(inFlight,
                                     [user_input |-> CsvData(plans),
                                      normalizedUserInput |->
                                         NormalizedUserInput(CsvString(CsvData(plans))),
                                      weights |-> BackendWeights(Undefined),
                                      mount |-> mountId])
    /\ UNCHANGED <<rankVars, homeVars, plans, loadingStats, mountId>>

\* The process-data call returns: onSubmit (Home.handleDataSubmitted) on
\* success, setError on failure; then setIsSubmitting(false).
ProcessDataReturns(i, ok) ==
    /\ i \in DOMAIN inFlight
    /\ inFlight' = SubSeq(inFlight, 1, i - 1) \o SubSeq(inFlight, i + 1, Len(inFlight))
    /\ IF ok
       THEN /\ activeStep' = 2
            /\ UnmountDataReview
       ELSE /\ activeStep' = activeStep
            /\ isSubmitting' = IF activeStep = 1 /\ inFlight[i].mount = mountId
                               THEN FALSE ELSE isSubmitting
            /\ UNCHANGED <<plans, loadingStats, warning, firebaseSaveStatus, mountId>>
    /\ UNCHANGED <<rankVars, inventoryData, historicalFile, store, nUserActions>>

\* Home.handleStepClick
HandleStepClick(stepIndex) ==
    /\ UserActs
    /\ IF stepIndex < activeStep
       THEN /\ activeStep' = stepIndex
            /\ IF stepIndex = 1 /\ Len(inventoryData) # 0
               THEN MountDataReview(inventoryData)
               ELSE UnmountDataReview
       ELSE UNCHANGED <<activeStep, plans, loadingStats, isSubmitting, warning,
                        firebaseSaveStatus, mountId>>
    /\ UNCHANGED <<rankVars, inventoryData, historicalFile, store, inFlight>>

\* Home.handleStartOver, from the results step.
HandleStartOver ==
    /\ activeStep = 2
    /\ UserActs
    /\ activeStep' = 0
    /\ inventoryData' = <<>>
    /\ historicalFile' = <<>>
    /\ UNCHANGED <<rankVars, plans, loadingStats, submitVars, mountId>>

Next ==
    \/ HandleFileProcessed
    \/ CalculateAverageRevenue
    \/ \E index \in 1..2, tag \in Tags : HandleTagSelect(index, tag)
    \/ \E index \in 1..2, value \in BudgetTexts : HandleBudgetChange(index, value)
    \/ \E index \in 1..2, publisher \in Publishers :
          HandlePublisherChange(index, publisher)
    \/ \E index \in 1..2 : HandleSelectAllPublishers(index)
    \/ \E index \in 1..2 : HandleClearAllPublishers(index)
    \/ \E index \in 1..2, value \in CountTexts :
          HandleDistributionCountChange(index, value)
    \/ \E index \in 1..2, value \in CountTexts :
          HandleClicksToBeDeliveredChange(index, value)
    \/ HandleProcessData
    \/ \E i \in 1..2, ok \in BOOLEAN : ProcessDataReturns(i, ok)
    \/ \E stepIndex \in 0..2 : HandleStepClick(stepIndex)
    \/ HandleStartOver

Spec == Init /\ [][Next]_vars

\* The review step with its search box: the upload, the search box and the
\* edit handlers of the rows.
NextSearch ==
    \/ HandleFileProcessed
    \/ \E query \in SearchQueries : HandleSearchChange(query)
    \/ \E index \in 1..2, tag \in Tags : HandleTagSelect(index, tag)
    \/ \E index \in 1..2, value \in BudgetTexts : HandleBudgetChange(index, value)
    \/ \E index \in 1..2, publisher \in Publishers :
          HandlePublisherChange(index, publisher)
    \/ \E index \in 1..2 : HandleSelectAllPublishers(index)
    \/ \E index \in 1..2 : HandleClearAllPublishers(index)
    \/ \E index \in 1..2, value \in CountTexts :
          HandleDistributionCountChange(index, value)
    \/ \E index \in 1..2, value \in CountTexts :
          HandleClicksToBeDeliveredChange(index, value)

SpecSearch == Init /\ [][NextSearch]_vars

\* ------------------------------------------------------------ upload form

\* The inventory files an operator can select: two that parse and an empty one.
UploadFiles == {"plans.xlsx", "budgets.xlsx", "empty.xlsx"}

\* The rows of an inventory file.
FileRows(file) ==
    CASE file = "plans.xlsx" ->
             <<InventoryRow("P1", "S1", Undefined), InventoryRow("P2", "S2", Undefined)>>
      [] file = "budgets.xlsx" ->
             <<InventoryRow("P1", "S1", Num(500)), InventoryRow("P2", "S2", Undefined)>>
      [] OTHER -> <<>>

\* handleInventoryFileChange: the file is selected and its read is started.
HandleInventoryFileChange(file) ==
    /\ activeStep = 0
    /\ UserActs
    /\ inventoryFile' = {file}
    /\ parsing' = parsing \cup {file}
    /\ UNCHANGED <<homeVars, plans, loadingStats, submitVars, mountId, scoredPlans,
                   rankingData, weights, rawInventory, rawHistorical, searchQuery,
                   uploadedInventoryData>>

\* The X button of the selected inventory file.
RemoveInventoryFile ==
    /\ activeStep = 0
    /\ inventoryFile # Undefined
    /\ UserActs
    /\ inventoryFile' = Undefined
    /\ UNCHANGED <<homeVars, plans, loadingStats, submitVars, mountId, scoredPlans,
                   rankingData, weights, rawInventory, rawHistorical, searchQuery,
                   uploadedInventoryData, parsing>>

\* reader.onload of processInventoryFile, for one of the reads in progress: the
\* parsed data is kept when it is accepted, else only the error is set.
InventoryFileLoaded(file) ==
    /\ activeStep = 0
    /\ file \in parsing
    /\ parsing' = parsing \ {file}
    /\ LET parsedData == ParseInventoryReport(FileRows(file), store)
       IN  uploadedInventoryData' =
               IF InventoryAccepted(parsedData) THEN {parsedData}
               ELSE uploadedInventoryData
    /\ UNCHANGED <<homeVars, plans, loadingStats, submitVars, mountId, nUserActions,
                   scoredPlans, rankingData, weights, rawInventory, rawHistorical,
                   searchQuery, inventoryFile>>

\* FileUpload.handleSubmit with a historical file chosen, then
\* Home.handleFileProcessed: the form is unmounted. The parsed plans are not
\* edited, so none is saved.
HandleSubmit ==
    /\ activeStep = 0
    /\ inventoryFile # Undefined
    /\ uploadedInventoryData # Undefined
    /\ UserActs
    /\ \E records \in HistoricalFiles :
          /\ inventoryData' = Val(uploadedInventoryData)
          /\ historicalFile' = records
          /\ activeStep' = 1
          /\ MountDataReview(Val(uploadedInventoryData))
    /\ inventoryFile' = Undefined
    /\ uploadedInventoryData' = Undefined
    /\ parsing' = {}
    /\ UNCHANGED <<store, inFlight, scoredPlans, rankingData, weights, rawInventory,
                   rawHistorical, searchQuery>>

NextUpload ==
    \/ \E file \in UploadFiles : HandleInventoryFileChange(file)
    \/ RemoveInventoryFile
    \/ \E file \in UploadFiles : InventoryFileLoaded(file)
    \/ HandleSubmit

SpecUpload == Init /\ [][NextUpload]_vars

\* ------------------------------------------- validation as a pure function

\* Plans over the whole Plan type: every field set or unset, whatever the tag.
TypedPlans ==
    {[planId |-> "P1", subcategory |-> "S1", brand_name |-> "Brand",
      publisher |-> pub, tags |-> tg, budgetCap |-> b, distributionCount |-> d,
      clicksToBeDelivered |-> c, avgRevenue |-> Undefined, isEdited |-> FALSE] :
        pub \in {<<>>, <<"JioCinema">>},
        tg \in {<<>>} \cup {<<t>> : t \in Tags},
        b \in {Undefined, Num(0), Num(500)},
        d \in {Undefined, Num(0), Num(7)},
        c \in {Undefined, Num(0), Num(7)}}

\* A second plan of the list, complete or without a publisher.
OtherPlans ==
    {[SavedPlan("P2", "S2", "Paid", Num(0), Undefined, Undefined) EXCEPT
         !.publisher = pub, !.isEdited = FALSE] : pub \in {<<>>, <<"MyJio">>}}

\* The review step showing a list of two plans of the Plan type.
InitValidate ==
    /\ activeStep = 1
    /\ \E p \in TypedPlans, q \in OtherPlans :
          /\ inventoryData = <<p, q>>
          /\ plans = <<p, q>>
    /\ historicalFile = <<>>
    /\ loadingStats = FALSE
    /\ isSubmitting = FALSE
    /\ warning = Undefined
    /\ firebaseSaveStatus = [success |-> 0, failed |-> 0]
    /\ store = <<>>
    /\ inFlight = <<>>
    /\ mountId = 1
    /\ nUserActions = 0
    /\ scoredPlans = <<>>
    /\ rankingData = Undefined
    /\ NoServiceInput

\* savePlanToFirebase called for one plan of the list.
SavePlanToFirebase(index) ==
    /\ index \in DOMAIN plans
    /\ UserActs
    /\ store' = IF SaveThrows(plans[index]) THEN store
                ELSE Append(store, PlanRecord(plans[index]))
    /\ UNCHANGED <<rankVars, homeVars, plans, loadingStats, isSubmitting, warning,
                   firebaseSaveStatus, inFlight, mountId>>

NextValidate ==
    \/ HandleProcessData
    \/ \E index \in 1..2 : SavePlanToFirebase(index)

SpecValidate == InitValidate /\ [][NextValidate]_vars

\* ------------------------------------------------------------- plan store

\* The review step showing a list of two plans of the Plan type, with the
\* store as earlier sessions left it.
InitStore ==
    /\ activeStep = 1
    /\ \E p \in TypedPlans, q \in OtherPlans :
          /\ inventoryData = <<p, q>>
          /\ plans = <<p, q>>
    /\ historicalFile = <<>>
    /\ loadingStats = FALSE
    /\ isSubmitting = FALSE
    /\ warning = Undefined
    /\ firebaseSaveStatus = [success |-> 0, failed |-> 0]
    /\ store \in InitialStores
    /\ inFlight = <<>>
    /\ mountId = 1
    /\ nUserActions = 0
    /\ scoredPlans = <<>>
    /\ rankingData = Undefined
    /\ NoServiceInput

\* Plans are saved, the operator goes back to the upload step and uploads an
\* inventory file again.
NextStore ==
    \/ \E index \in 1..2 : SavePlanToFirebase(index)
    \/ HandleStepClick(0)
    \/ HandleFileProcessed

SpecStore == InitStore /\ [][NextStore]_vars

\* ------------------------------------------------ CSV hand-off, any text

\* The review step showing two plans of the Plan type, the brand name of the
\* first a plain word or a text with a comma.
InitCsv ==
    /\ activeStep = 1
    /\ \E p \in TypedPlans, q \in OtherPlans, brand \in {"Brand", "A,B"} :
          /\ inventoryData = <<[p EXCEPT !.brand_name = brand], q>>
          /\ plans = <<[p EXCEPT !.brand_name = brand], q>>
    /\ historicalFile = <<>>
    /\ loadingStats = FALSE
    /\ isSubmitting = FALSE
    /\ warning = Undefined
    /\ firebaseSaveStatus = [success |-> 0, failed |-> 0]
    /\ store = <<>>
    /\ inFlight = <<>>
    /\ mountId = 1
    /\ nUserActions = 0
    /\ scoredPlans = <<>>
    /\ rankingData = Undefined
    /\ NoServiceInput

NextCsv ==
    \/ HandleProcessData
    \/ \E i \in 1..2, ok \in BOOLEAN : ProcessDataReturns(i, ok)

SpecCsv == InitCsv /\ [][NextCsv]_vars

\* ------------------------------------------------------------------ ranker

\* The ranking service is not part of this source tree: the Ranker below is
\* written from the specification's section 4.5.

MaxScoredPlans == 3

\* Plan identifiers in ascending order.
PlanIdOrder == <<"P1", "P2", "P3", "P4">>

PlanIdIndex(planId) == CHOOSE k \in DOMAIN PlanIdOrder : PlanIdOrder[k] = planId

\* Adjusted scores, scaled to integers; two plans may have the same score.
Scores == {0, 5}

PublisherLists == {<<>>, <<"JioCinema">>, <<"JioCinema", "MyJio">>}

ScoredEntry(planId, publisher, adjustedScore) ==
    [planId |-> planId, publisher |-> publisher, adjustedScore |-> adjustedScore]

\* The scored plans of one run: distinct planIds, in any order of arrival.
ScoredInputs ==
    UNION {{s \in [1..n -> {ScoredEntry(PlanIdOrder[k], pub, sc) :
                              k \in 1..MaxScoredPlans, pub \in PublisherLists,
                              sc \in Scores}] :
              \A i, j \in 1..n : i # j => s[i].planId # s[j].planId} :
           n \in 0..MaxScoredPlans}

\* The competition-ranking slip: plans with equal scores share a rank.
RankScope_SharedRankOnTies(sorted) ==
    [i \in DOMAIN sorted |->
        [planId |-> sorted[i].planId,
         publisher |-> sorted[i].publisher,
         adjustedScore |-> sorted[i].adjustedScore,
         finalRank |-> 1 + Cardinality({j \in DOMAIN sorted :
                           sorted[j].adjustedScore > sorted[i].adjustedScore})]]

\* The stable sort alone, without the planId tiebreak.
RanksBefore_ScoreOnly(a, b) == a.adjustedScore > b.adjustedScore

\* Sort key: adjustedScore descending, then planId ascending.
RanksBefore(a, b) ==
    \/ a.adjustedScore > b.adjustedScore
    \/ /\ a.adjustedScore = b.adjustedScore
       /\ PlanIdIndex(a.planId) < PlanIdIndex(b.planId)

\* Stable insertion of one entry into a sorted list.
RECURSIVE InsertSorted(_, _)
InsertSorted(sorted, e) ==
    IF sorted = <<>> THEN <<e>>
    ELSE IF RanksBefore(e, Head(sorted)) THEN <<e>> \o sorted
    ELSE <<Head(sorted)>> \o InsertSorted(Tail(sorted), e)

RECURSIVE SortEntries(_)
SortEntries(entries) ==
    IF entries = <<>> THEN <<>>
    ELSE InsertSorted(SortEntries(SubSeq(entries, 1, Len(entries) - 1)),
                      entries[Len(entries)])

\* finalRank: 1-based position in the sorted scope.
RankScope(sorted) ==
    [i \in DOMAIN sorted |->
        [planId |-> sorted[i].planId,
         publisher |-> sorted[i].publisher,
         adjustedScore |-> sorted[i].adjustedScore,
         finalRank |-> i]]

\* The slip of the sketched ranker: a plan is looked up under one publisher
\* value only, the first of its list.
AssignedTo_FirstPublisherOnly(entries, pub) ==
    SelectSeq(entries, LAMBDA e : e.publisher # <<>> /\ e.publisher[1] = pub)

RECURSIVE AssignedTo(_, _)
AssignedTo(entries, pub) ==
    IF entries = <<>> THEN <<>>
    ELSE (IF Includes(Head(entries).publisher, pub) THEN <<Head(entries)>> ELSE <<>>)
         \o AssignedTo(Tail(entries), pub)

ScopePublishers(entries) ==
    UNION {Range(entries[i].publisher) : i \in DOMAIN entries}

\* The RankingResult: the all-plans scope and one scope per publisher.
GenerateRankings(entries) ==
    [allPublishers |-> RankScope(SortEntries(entries)),
     byPublisher |-> [pub \in ScopePublishers(entries) |->
                         RankScope(SortEntries(AssignedTo(entries, pub)))]]

\* One ranking run over scored plans.
InitRank ==
    /\ activeStep = 2
    /\ inventoryData = <<>>
    /\ historicalFile = <<>>
    /\ plans = <<>>
    /\ loadingStats = FALSE
    /\ isSubmitting = FALSE
    /\ warning = Undefined
    /\ firebaseSaveStatus = [success |-> 0, failed |-> 0]
    /\ store = <<>>
    /\ inFlight = <<>>
    /\ mountId = 1
    /\ nUserActions = 0
    /\ scoredPlans \in ScoredInputs
    /\ rankingData = Undefined
    /\ NoServiceInput

RunRanker ==
    /\ rankingData = Undefined
    /\ rankingData' = Num(GenerateRankings(scoredPlans))
    /\ UNCHANGED <<homeVars, plans, loadingStats, submitVars, mountId, nUserActions,
                   scoredPlans, weights, rawInventory, rawHistorical, searchQuery,
                   inventoryFile, uploadedInventoryData, parsing>>

NextRank == RunRanker

SpecRank == InitRank /\ [][NextRank]_vars

\* ------------------------------------------------- upload of raw sheets

\* Rows of an inventory sheet: the plan id under one header, another or none,
\* the budget cap as a number or a text under one header or another.
RawInventorySheets ==
    {<<>>} \cup
    {<<RawRow(("Plan ID" :> id) @@ ("plan_id" :> id2)
              @@ ("Subcategory" :> TextCell("S1"))
              @@ ("budgetCap" :> b) @@ ("Budget Cap" :> b2)),
       RawRow(("Plan ID" :> TextCell("P2")) @@ ("Subcategory" :> TextCell("S2")))>> :
        id \in {Absent, TextCell("P1"), TextCell("")},
        id2 \in {Absent, TextCell("P3")},
        b \in {Absent, NumCell(0), NumCell(500), TextCell("abc"), TextCell("1,000")},
        b2 \in {Absent, NumCell(7)}}

\* Rows of a historical sheet: the plan id present or not, the revenue as a
\* number or a text under one header or another.
RawHistoricalSheets ==
    {<<>>} \cup
    {<<RawRow(("Plan ID" :> id) @@ ("Publisher" :> TextCell("MyJio"))
              @@ ("Revenue" :> rev) @@ ("revenue" :> rev2)
              @@ ("Clicks" :> NumCell(7))
              @@ ("Distribution_Count" :> TextCell("1,000"))),
       RawRow(("Plan ID" :> TextCell("P2")) @@ ("Publisher" :> TextCell("JioCinema"))
              @@ ("Revenue" :> NumCell(700)) @@ ("Clicks" :> NumCell(0)))>> :
        id \in {Absent, TextCell("P1")},
        rev \in {Absent, NumCell(0), NumCell(700), TextCell("1,000"), TextCell("12.6"),
                 TextCell("abc")},
        rev2 \in {Absent, NumCell(7)}}

InitNormalize ==
    /\ activeStep = 0
    /\ inventoryData = <<>>
    /\ historicalFile = <<>>
    /\ plans = <<>>
    /\ loadingStats = FALSE
    /\ isSubmitting = FALSE
    /\ warning = Undefined
    /\ firebaseSaveStatus = [success |-> 0, failed |-> 0]
    /\ store = <<>>
    /\ inFlight = <<>>
    /\ mountId = 0
    /\ nUserActions = 0
    /\ scoredPlans = <<>>
    /\ rankingData = Undefined
    /\ weights = Undefined
    /\ rawInventory \in RawInventorySheets
    /\ rawHistorical \in RawHistoricalSheets
    /\ NoFormInput

\* The operator chooses both sheets and submits: processInventoryFile parses
\* and checks the inventory, handleSubmit hands both files to Home, and the
\* review step reads the historical sheet.
UploadRawFiles ==
    /\ activeStep = 0
    /\ UserActs
    /\ LET parsedData == ParseInventoryReport(ReadInventorySheet(rawInventory), store)
       IN  IF InventoryAccepted(parsedData)
           THEN /\ inventoryData' = parsedData
                /\ historicalFile' = ParseHistoricalData(rawHistorical)
                /\ activeStep' = 1
                /\ MountDataReview(parsedData)
           ELSE UNCHANGED <<homeVars, plans, loadingStats, isSubmitting, warning,
                            firebaseSaveStatus, mountId>>
    /\ UNCHANGED <<rankVars, store, inFlight>>

NextNormalize ==
    \/ UploadRawFiles
    \/ CalculateAverageRevenue

SpecNormalize == InitNormalize /\ [][NextNormalize]_vars

\* ------------------------------------------------------- weights of a call

\* The weights arguments a caller can pass: none, or an object whose fields
\* are numbers or missing.
WeightArguments ==
    {Undefined} \cup
    {Num([ctr |-> c, epc |-> e, revenue |-> r]) :
        c \in {Undefined} \cup {Num(v) : v \in WeightValues},
        e \in {Undefined} \cup {Num(v) : v \in WeightValues},
        r \in {Undefined} \cup {Num(v) : v \in WeightValues}}

InitWeights ==
    /\ activeStep = 1
    /\ inventoryData = <<>>
    /\ historicalFile = <<>>
    /\ plans = <<>>
    /\ loadingStats = FALSE
    /\ isSubmitting = FALSE
    /\ warning = Undefined
    /\ firebaseSaveStatus = [success |-> 0, failed |-> 0]
    /\ store = <<>>
    /\ inFlight = <<>>
    /\ mountId = 1
    /\ nUserActions = 0
    /\ scoredPlans = <<>>
    /\ rankingData = Undefined
    /\ weights \in WeightArguments
    /\ rawInventory = <<>>
    /\ rawHistorical = <<>>
    /\ NoFormInput

\* apiService.processData up to the fetch: the request body.
ApiProcessData ==
    /\ inFlight = <<>>
    /\ inFlight' = <<[user_input |-> <<>>, weights |-> BackendWeights(weights),
                      mount |-> mountId]>>
    /\ UNCHANGED <<rankVars, homeVars, plans, loadingStats, isSubmitting, warning,
                   firebaseSaveStatus, store, mountId, nUserActions>>

NextWeights == ApiProcessData

SpecWeights == InitWeights /\ [][NextWeights]_vars

\* ------------------------------------------------------- ranking engine

\* Exact fractions for ctr, epc, avgRevenue and the scores: a numerator that is
\* not negative over a positive denominator, in lowest terms.
RECURSIVE GCD(_, _)
GCD(a, b) == IF b = 0 THEN a ELSE GCD(b, a % b)

LCM(a, b) == (a \div GCD(a, b)) * b

Rat(n, d) ==
    IF n = 0 THEN [num |-> 0, den |-> 1]
    ELSE [num |-> n \div GCD(n, d), den |-> d \div GCD(n, d)]

\* The operations reduce before they multiply, to keep the numbers small.
RatAdd(x, y) ==
    Rat(x.num * (LCM(x.den, y.den) \div x.den) + y.num * (LCM(x.den, y.den) \div y.den),
        LCM(x.den, y.den))

RatMul(x, y) ==
    IF x.num = 0 \/ y.num = 0 THEN Rat(0, 1)
    ELSE Rat((x.num \div GCD(x.num, y.den)) * (y.num \div GCD(y.num, x.den)),
             (x.den \div GCD(y.num, x.den)) * (y.den \div GCD(x.num, y.den)))

RatDiv(x, y) == RatMul(x, [num |-> y.den, den |-> y.num])

RatLess(x, y) ==
    x.num * (LCM(x.den, y.den) \div x.den) < y.num * (LCM(x.den, y.den) \div y.den)

RatMin(x, y) == IF RatLess(y, x) THEN y ELSE x

\* A plan and a historical record as the engine receives them.
EnginePlan(planId, publisher, tag, subcategory, budgetCap, distributionCount, clicksToBeDelivered) ==
    [planId |-> planId, publisher |-> publisher, tags |-> <<tag>>,
     subcategory |-> subcategory, budgetCap |-> budgetCap,
     distributionCount |-> distributionCount,
     clicksToBeDelivered |-> clicksToBeDelivered]

EngineRecord(planId, publisher, revenue, distribution, clicks, subcategory) ==
    [planId |-> planId, publisher |-> publisher, revenue |-> revenue,
     distribution |-> distribution, clicks |-> clicks, subcategory |-> subcategory]

\* Metrics Aggregator: the records of a plan are those with its planId, of any
\* publisher; when there are none, those with its subcategory.
RecordsOfPlan(plan, records) ==
    SelectSeq(records, LAMBDA r : r.planId = plan.planId)

RecordsOfSubcategory(plan, records) ==
    SelectSeq(records, LAMBDA r : r.subcategory = plan.subcategory)

MatchingRecords(plan, records) ==
    IF RecordsOfPlan(plan, records) # <<>> THEN RecordsOfPlan(plan, records)
    ELSE RecordsOfSubcategory(plan, records)

RECURSIVE Sum(_, _)
Sum(records, field) ==
    IF records = <<>> THEN 0 ELSE Head(records)[field] + Sum(Tail(records), field)

\* ctr = round(100 * total_clicks / total_distribution, 2 decimal places), and 0
\* when the distribution sums to 0.
Ctr(records) ==
    IF Sum(records, "distribution") = 0 THEN Rat(0, 1)
    ELSE Rat(RoundDiv(10000 * Sum(records, "clicks"), Sum(records, "distribution")), 100)

\* A guard that divides by at least one click instead of answering 0.
Epc_DividesByAtLeastOne(records) ==
    IF Sum(records, "clicks") = 0 THEN Rat(Sum(records, "revenue"), 1)
    ELSE Rat(Sum(records, "revenue"), Sum(records, "clicks"))

\* epc = total_revenue / total_clicks, and 0 when the clicks sum to 0.
Epc(records) ==
    IF Sum(records, "clicks") = 0 THEN Rat(0, 1)
    ELSE Rat(Sum(records, "revenue"), Sum(records, "clicks"))

\* avgRevenue = total revenue over the fixed window.
AvgRevenue(records) == Rat(Sum(records, "revenue"), WindowDays)

PlanMetrics(plan, records) ==
    [plan |-> plan,
     ctr |-> Ctr(MatchingRecords(plan, records)),
     epc |-> Epc(MatchingRecords(plan, records)),
     avgRevenue |-> AvgRevenue(MatchingRecords(plan, records))]

\* An aggregation that keeps only the plans that have records.
AggregateMetrics_DropsUnmatched(planList, records) ==
    SelectSeq([i \in DOMAIN planList |-> PlanMetrics(planList[i], records)],
              LAMBDA m : MatchingRecords(m.plan, records) # <<>>)

\* One AggregatedMetrics per plan, in the order of the plans.
AggregateMetrics(planList, records) ==
    [i \in DOMAIN planList |-> PlanMetrics(planList[i], records)]

\* The Mandatory rule without the division that turns the percentage into a
\* fraction.
ExpectedClicks_CtrAsFraction(plan, ctr, epc) ==
    IF Includes(plan.tags, "Mandatory") THEN RatMul(Rat(plan.distributionCount, 1), ctr)
    ELSE IF Includes(plan.tags, "FOC") THEN Rat(plan.clicksToBeDelivered, 1)
    ELSE IF epc.num > 0 THEN RatDiv(Rat(plan.budgetCap, 1), epc)
    ELSE Rat(0, 1)

\* Tag Rule Engine: expectedClicks by the active tag.
ExpectedClicks(plan, ctr, epc) ==
    IF Includes(plan.tags, "Mandatory")
    THEN RatMul(Rat(plan.distributionCount, 1), RatMul(ctr, Rat(1, 100)))
    ELSE IF Includes(plan.tags, "FOC") THEN Rat(plan.clicksToBeDelivered, 1)
    ELSE IF epc.num > 0 THEN RatDiv(Rat(plan.budgetCap, 1), epc)
    ELSE Rat(0, 1)

\* Scorer: revenue is scaled down by 1000; the weights are in hundredths.
RevenueScale == 1000

Score(metrics, w) ==
    RatAdd(RatMul(metrics.ctr, Rat(w.CTR, 100)),
           RatAdd(RatMul(metrics.epc, Rat(w.EPC, 100)),
                  RatMul(RatMul(metrics.avgRevenue, Rat(1, RevenueScale)),
                         Rat(w.Revenue, 100))))

\* The budget cap from which a Paid plan is no longer damped.
DampingSaturation == 1000

\* The damping of the design sketch: the budget factor for a plan of any tag.
Damping_AllTags(plan) ==
    RatMin(Rat(1, 1), Rat(plan.budgetCap, DampingSaturation))

\* min(1.0, budgetCap / 1000) for a Paid plan, no damping for another tag.
Damping(plan) ==
    IF Includes(plan.tags, "Paid")
    THEN RatMin(Rat(1, 1), Rat(plan.budgetCap, DampingSaturation))
    ELSE Rat(1, 1)

\* A plan joined with its metrics, its projection and its scores.
ScoredPlan(metrics, w) ==
    [planId |-> metrics.plan.planId,
     publisher |-> metrics.plan.publisher,
     tags |-> metrics.plan.tags,
     subcategory |-> metrics.plan.subcategory,
     budgetCap |-> metrics.plan.budgetCap,
     distributionCount |-> metrics.plan.distributionCount,
     clicksToBeDelivered |-> metrics.plan.clicksToBeDelivered,
     ctr |-> metrics.ctr,
     epc |-> metrics.epc,
     avgRevenue |-> metrics.avgRevenue,
     expectedClicks |-> ExpectedClicks(metrics.plan, metrics.ctr, metrics.epc),
     score |-> Score(metrics, w),
     adjusted |-> RatMul(Score(metrics, w), Damping(metrics.plan))]

\* The least denominator on which every adjusted score of a run is a whole
\* number.
RECURSIVE CommonDenominator(_)
CommonDenominator(scored) ==
    IF scored = <<>> THEN 1
    ELSE LCM(Head(scored).adjusted.den, CommonDenominator(Tail(scored)))

\* The scored plans as the Ranker reads them: adjustedScore is the adjusted
\* score on the run's common denominator, so that the order and the ties of
\* the exact scores are kept.
ScorePlans(aggregated, w) ==
    LET scored == [i \in DOMAIN aggregated |-> ScoredPlan(aggregated[i], w)]
        den == CommonDenominator(scored)
    IN  [i \in DOMAIN scored |->
            [planId |-> scored[i].planId,
             publisher |-> scored[i].publisher,
             tags |-> scored[i].tags,
             subcategory |-> scored[i].subcategory,
             budgetCap |-> scored[i].budgetCap,
             distributionCount |-> scored[i].distributionCount,
             clicksToBeDelivered |-> scored[i].clicksToBeDelivered,
             ctr |-> scored[i].ctr,
             epc |-> scored[i].epc,
             avgRevenue |-> scored[i].avgRevenue,
             expectedClicks |-> scored[i].expectedClicks,
             score |-> scored[i].score,
             adjusted |-> scored[i].adjusted,
             adjustedScore |-> scored[i].adjusted.num * (den \div scored[i].adjusted.den)]]

\* EmptyInputSet: zero plans or zero historical records.
EmptyInputSet(request) ==
    request.user_input = <<>> \/ request.historical_data = <<>>

\* The scored plans of a request: none for an empty input set.
EngineScoredPlans(request) ==
    IF EmptyInputSet(request) THEN <<>>
    ELSE ScorePlans(AggregateMetrics(request.user_input, request.historical_data),
                    request.weights)

\* The plans of a request: P1 under each tag and budget, with a Paid or a
\* Mandatory P2, and with or without P3, which shares its subcategory with no
\* record.
EnginePlanLists ==
    LET EngineFirstPlans ==
            {EnginePlan("P1", pub, "Paid", "S1", b, 0, 0) :
                pub \in {<<"JioCinema">>, <<"JioCinema", "MyJio">>},
                b \in {0, 500, 1000, 2000}}
            \cup
            {EnginePlan("P1", pub, "Mandatory", "S1", 0, 200, 0) :
                pub \in {<<"JioCinema">>, <<"JioCinema", "MyJio">>}}
            \cup
            {EnginePlan("P1", pub, "FOC", "S1", 0, 0, 7) :
                pub \in {<<"JioCinema">>, <<"JioCinema", "MyJio">>}}
        EngineSecondPlans ==
            {EnginePlan("P2", <<"MyJio">>, "Paid", sub, 1000, 0, 0) :
                sub \in {"S1", "S2"}}
            \cup {EnginePlan("P2", <<"MyJio">>, "Mandatory", "S1", 0, 200, 0)}
        EngineThirdPlan ==
            EnginePlan("P3", <<"JioCinema">>, "Mandatory", "S3", 0, 200, 0)
    IN  {<<>>}
        \cup {<<p, q>> : p \in EngineFirstPlans, q \in EngineSecondPlans}
        \cup {<<EngineThirdPlan, q, p>> :
                  p \in EngineFirstPlans, q \in EngineSecondPlans}

\* The historical records of a request: none; one record of P1; records of P1
\* and a P2 record of zeros; an orphan record with the subcategory of P1;
\* revenue without clicks; two records of P1 under two publishers; a click
\* rate that needs rounding.
EngineRecordFiles ==
    {<<>>,
     <<EngineRecord("P1", "JioCinema", 700, 1000, 50, "S1")>>,
     <<EngineRecord("P1", "JioCinema", 700, 1000, 50, "S1"),
       EngineRecord("P2", "MyJio", 0, 0, 0, "S2")>>,
     <<EngineRecord("P9", "JioCinema", 700, 1000, 50, "S1")>>,
     <<EngineRecord("P1", "JioCinema", 700, 1000, 0, "S1"),
       EngineRecord("P2", "MyJio", 1400, 0, 10, "S2")>>,
     <<EngineRecord("P1", "MyJio", 300, 400, 20, "S1"),
       EngineRecord("P1", "JioCinema", 400, 600, 30, "S1")>>,
     <<EngineRecord("P1", "JioCinema", 70, 3, 1, "S1")>>}

EngineWeights ==
    {[CTR |-> DefaultWeight, EPC |-> DefaultWeight, Revenue |-> DefaultWeight],
     [CTR |-> 0, EPC |-> 50, Revenue |-> 100]}

EngineRequests ==
    {[user_input |-> p, historical_data |-> h, weights |-> w, mount |-> 0] :
        p \in EnginePlanLists, h \in EngineRecordFiles, w \in EngineWeights}

\* One process-data request waiting for the engine.
InitEngine ==
    /\ activeStep = 1
    /\ inventoryData = <<>>
    /\ historicalFile = <<>>
    /\ plans = <<>>
    /\ loadingStats = FALSE
    /\ isSubmitting = TRUE
    /\ warning = Undefined
    /\ firebaseSaveStatus = [success |-> 0, failed |-> 0]
    /\ store = <<>>
    /\ inFlight \in {<<request>> : request \in EngineRequests}
    /\ mountId = 0
    /\ nUserActions = 0
    /\ scoredPlans = <<>>
    /\ rankingData = Undefined
    /\ NoServiceInput

\* The engine answers the request: aggregation, tag rules, scores, ranking.
ProcessRequest ==
    /\ inFlight # <<>>
    /\ rankingData = Undefined
    /\ scoredPlans' = EngineScoredPlans(Head(inFlight))
    /\ rankingData' = Num(GenerateRankings(EngineScoredPlans(Head(inFlight))))
    /\ UNCHANGED <<homeVars, plans, loadingStats, submitVars, mountId, nUserActions,
                   weights, rawInventory, rawHistorical, searchQuery,
                   inventoryFile, uploadedInventoryData, parsing>>

NextEngine == ProcessRequest

SpecEngine == InitEngine /\ [][NextEngine]_vars

\* ------------------------------------------------------------------ claims

\* The scopes of a RankingResult, as a set of lists.
C1_Scopes(result) ==
    {result.allPublishers} \cup {result.byPublisher[pub] : pub \in DOMAIN result.byPublisher}

\* C1: in the all-plans scope and in each publisher's scope, a scope of N plans
\* carries exactly the finalRank values 1..N, each once; the all-plans scope
\* holds every plan and a publisher's scope every plan assigned to it.
C1_RanksAreDense ==
    rankingData # Undefined =>
        LET result == Val(rankingData)
        IN  /\ \A scope \in C1_Scopes(result) :
                  /\ {scope[i].finalRank : i \in DOMAIN scope} = 1..Len(scope)
                  /\ \A i, j \in DOMAIN scope :
                        scope[i].finalRank = scope[j].finalRank => i = j
            /\ Len(result.allPublishers) = Len(scoredPlans)
            /\ \A pub \in DOMAIN result.byPublisher :
                  Len(result.byPublisher[pub]) =
                     Cardinality({i \in DOMAIN scoredPlans :
                                     Includes(scoredPlans[i].publisher, pub)})

\* C1 witness: three plans were ranked, two of them with the same score, and
\* one publisher's scope holds two of them.
C1_Witness ==
    /\ rankingData # Undefined
    /\ Len(Val(rankingData).allPublishers) = 3
    /\ \E i, j \in DOMAIN scoredPlans :
          i # j /\ scoredPlans[i].adjustedScore = scoredPlans[j].adjustedScore
    /\ \E pub \in DOMAIN Val(rankingData).byPublisher :
          Len(Val(rankingData).byPublisher[pub]) = 2

C2_Permutations(n) ==
    {f \in [1..n -> 1..n] : \A i, j \in 1..n : i # j => f[i] # f[j]}

ActiveField(tag) ==
    CASE tag = "Paid" -> "budgetCap"
      [] tag = "Mandatory" -> "distributionCount"
      [] tag = "FOC" -> "clicksToBeDelivered"

\* C3: every plan record of a process-data request has exactly one tag of
\* {Paid, Mandatory, FOC}, and the two numeric fields that tag does not select
\* are 0.
C3_SubmittedRecordHasOneActiveField ==
    \A i \in DOMAIN inFlight :
       \A j \in DOMAIN inFlight[i].user_input :
          LET r == inFlight[i].user_input[j]
          IN  /\ Len(r.tags) = 1
              /\ r.tags[1] \in Tags
              /\ \A f \in {"budgetCap", "distributionCount", "clicksToBeDelivered"} :
                    f # ActiveField(r.tags[1]) => r[f] = 0

\* C4: at any time every plan of the review step has exactly one tag of
\* {Paid, Mandatory, FOC}.
C4_TagsIsSingleton ==
    \A i \in DOMAIN plans :
       Len(plans[i].tags) = 1 /\ plans[i].tags[1] \in Tags

\* C5: a tag selection that changes the tag clears budgetCap when it leaves
\* Paid for Mandatory or FOC, sets clicksToBeDelivered (into FOC) or
\* distributionCount (into Mandatory) to 0 when it was unset and keeps it
\* otherwise, is defined for every plan and tag, and changes no other plan.
C5_TagSwitchResetsFields ==
    [][\A index \in DOMAIN plans, tag \in Tags :
          LET old == plans[index]
              new == plans'[index]
          IN  (HandleTagSelect(index, tag) /\ old.tags # <<tag>>) =>
                 /\ DOMAIN plans' = DOMAIN plans
                 /\ new.tags = <<tag>>
                 /\ (Includes(old.tags, "Paid") /\ tag \in {"Mandatory", "FOC"})
                       => new.budgetCap = Undefined
                 /\ tag = "FOC" =>
                       new.clicksToBeDelivered =
                          IF old.clicksToBeDelivered = Undefined THEN Num(0)
                          ELSE old.clicksToBeDelivered
                 /\ tag = "Mandatory" =>
                       new.distributionCount =
                          IF old.distributionCount = Undefined THEN Num(0)
                          ELSE old.distributionCount
                 /\ \A other \in DOMAIN plans :
                       other # index => plans'[other] = plans[other]
                 /\ UNCHANGED <<rankVars, homeVars, submitVars>>]_vars

\* C5 witness: a stored Paid plan without clicks was switched to FOC.
C5_Witness ==
    \E i \in DOMAIN plans :
       /\ inventoryData[i].tags = <<"Paid">>
       /\ inventoryData[i].clicksToBeDelivered = Undefined
       /\ inventoryData[i].budgetCap # Undefined
       /\ plans[i].tags = <<"FOC">>
       /\ plans[i].budgetCap = Undefined
       /\ plans[i].clicksToBeDelivered = Num(0)

\* C6: in the review step a plan that is not Paid has budgetCap 0 or unset, and
\* every budgetCap that is set is non-negative.
C6_BudgetCapOnlyForPaid ==
    \A i \in DOMAIN plans :
       /\ ~Includes(plans[i].tags, "Paid") => plans[i].budgetCap \in {Undefined, Num(0)}
       /\ plans[i].budgetCap # Undefined => Val(plans[i].budgetCap) >= 0

\* C7 as the claim words it: a plan passes when it has a publisher and the
\* numeric field its tag selects is set.
C7_Passes(plan) ==
    /\ Len(plan.publisher) # 0
    /\ \A t \in Tags : Includes(plan.tags, t) => plan[ActiveField(t)] # Undefined

\* C7: validation, in the review step and before a save, passes a plan
\* exactly when it has a publisher and the field its tag selects is set (0
\* counts as set, unset fails); the two fields the tag does not select never
\* change the result; so a plan that is saved is a plan that passes.
C7_ValidationReadsActiveFieldOnly ==
    /\ \A i \in DOMAIN plans :
          LET p == plans[i]
          IN  /\ PlanValid(p) <=> C7_Passes(p)
              /\ \A f \in {"budgetCap", "distributionCount", "clicksToBeDelivered"},
                    v \in {Undefined, Num(0), Num(7)} :
                    (\A t \in Tags : Includes(p.tags, t) => f # ActiveField(t))
                       => (PlanValid([p EXCEPT ![f] = v]) <=> PlanValid(p))
    /\ \A k \in DOMAIN store, i \in DOMAIN plans :
          store[k].planId = plans[i].planId => C7_Passes(plans[i])

\* C8: a call of handleProcessData with a plan that fails validation writes
\* nothing to the plan store, sends no process-data request and leaves the
\* wizard's step as it is.
C8_InvalidPlansBlockSubmission ==
    [][(HandleProcessData /\ \E i \in DOMAIN plans : ~C7_Passes(plans[i])) =>
          /\ store' = store
          /\ inFlight' = inFlight
          /\ activeStep' = activeStep
          /\ isSubmitting' = FALSE]_vars

\* C8 witness: a click was refused while one plan had no publisher and the
\* other plan was complete.
C8_Witness ==
    /\ activeStep = 1
    /\ warning # Undefined
    /\ inFlight = <<>>
    /\ \E i, j \in DOMAIN plans :
          /\ Len(plans[i].publisher) = 0
          /\ C7_Passes(plans[j])

\* The review step shows the result of the average-revenue calculation.
AvgRevenueSettled ==
    activeStep = 1 /\ ~loadingStats /\ Len(historicalFile) # 0

C10_Relabel(records, pub) ==
    [k \in DOMAIN records |-> [records[k] EXCEPT !.publisher = pub]]

C20_Supplied(field) ==
    IF weights = Undefined THEN Undefined ELSE Val(weights)[field]

\* C20: every weight of a request is the caller's value where the caller
\* supplied one, 0 included, and the default 0.33 where the caller supplied none.
C20_WeightsDefaultOnlyWhenMissing ==
    \A k \in DOMAIN inFlight :
        /\ inFlight[k].weights.CTR =
              (IF C20_Supplied("ctr") = Undefined THEN 33 ELSE Val(C20_Supplied("ctr")))
        /\ inFlight[k].weights.EPC =
              (IF C20_Supplied("epc") = Undefined THEN 33 ELSE Val(C20_Supplied("epc")))
        /\ inFlight[k].weights.Revenue =
              (IF C20_Supplied("revenue") = Undefined THEN 33
               ELSE Val(C20_Supplied("revenue")))

\* A row carries its identifier under one of the aliases.
C16_HasId(row, aliases) == \E k \in DOMAIN aliases : Truthy(row[aliases[k]])

\* A row carries no identifier under any alias.
C16_NoId(row, aliases) == \A k \in DOMAIN aliases : row[aliases[k]].kind = "absent"

C16_Count(rows, aliases) ==
    Cardinality({i \in DOMAIN rows : C16_HasId(rows[i], aliases)})

\* C16: when every row of a sheet either carries an identifier or carries none
\* under every alias, the rows without one are skipped and the others are
\* processed: the inventory is accepted with one plan per row that has an
\* identifier, the historical records are one per row that has one, and no
\* plan and no record has an empty planId.
C16_RowWithoutPlanIdIsSkipped ==
    /\ (/\ nUserActions > 0
        /\ \A i \in DOMAIN rawInventory :
              C16_HasId(rawInventory[i], Aliases("planId"))
              \/ C16_NoId(rawInventory[i], Aliases("planId"))
        /\ C16_Count(rawInventory, Aliases("planId")) > 0)
       => /\ activeStep = 1
          /\ Len(inventoryData) = C16_Count(rawInventory, Aliases("planId"))
          /\ \A i \in DOMAIN inventoryData : inventoryData[i].planId # ""
    /\ activeStep = 1
       => /\ Len(historicalFile) = C16_Count(rawHistorical, Aliases("historical planId"))
          /\ \A i \in DOMAIN historicalFile : historicalFile[i].planId # ""

\* C18: every numeric field of a normalized row is a finite number: thousands
\* separators are stripped (1,000 is 1000), a text that is no number gives 0,
\* and revenue and counts are rounded to integers (12.6 is 13).
C18_NormalizedNumbersAreFinite ==
    activeStep = 1 =>
        /\ \A i \in DOMAIN inventoryData :
              /\ inventoryData[i].budgetCap # Undefined
                    => IsFinite(Val(inventoryData[i].budgetCap))
              /\ rawInventory[i]["budgetCap"] = TextCell("1,000")
                    => inventoryData[i].budgetCap = Num(1000)
              /\ (rawInventory[i]["budgetCap"] = TextCell("abc")
                  /\ rawInventory[i]["Budget Cap"] = Absent)
                    => inventoryData[i].budgetCap = Num(0)
        /\ \A i \in DOMAIN historicalFile :
              /\ IsFinite(historicalFile[i].revenue)
              /\ IsFinite(historicalFile[i].clicks)
              /\ IsFinite(historicalFile[i].distribution_count)
              /\ rawHistorical[i]["Revenue"] = TextCell("1,000")
                    => historicalFile[i].revenue = 1000
              /\ rawHistorical[i]["Revenue"] = TextCell("12.6")
                    => historicalFile[i].revenue = 13
              /\ rawHistorical[i]["Distribution_Count"] = TextCell("1,000")
                    => historicalFile[i].distribution_count = 1000

\* The first cell of an alias list that is present in the row, else no cell.
C19_FirstPresent(row, aliases) ==
    IF \A k \in DOMAIN aliases : row[aliases[k]].kind = "absent" THEN Absent
    ELSE row[aliases[CHOOSE k \in DOMAIN aliases :
                        /\ row[aliases[k]].kind # "absent"
                        /\ \A j \in 1..(k - 1) : row[aliases[j]].kind = "absent"]]

\* C19: each field of a normalized row comes from the first alias present in
\* the raw row: a plan's planId is the text under the first present plan id
\* header and its budgetCap the number under the first present budget header,
\* a record's revenue the number under the first present revenue header, also
\* when that first value is the empty text or 0.
C19_FirstPresentAliasWins ==
    activeStep = 1 =>
        /\ \A i \in DOMAIN inventoryData :
              /\ C19_FirstPresent(rawInventory[i], Aliases("planId")).kind = "string"
                    => inventoryData[i].planId =
                          C19_FirstPresent(rawInventory[i], Aliases("planId")).text
              /\ C19_FirstPresent(rawInventory[i], Aliases("budgetCap")).kind = "number"
                    => inventoryData[i].budgetCap =
                          Num(C19_FirstPresent(rawInventory[i], Aliases("budgetCap")).num)
        /\ \A i \in DOMAIN historicalFile :
              C19_FirstPresent(rawHistorical[i], Aliases("revenue")).kind = "number"
                 => historicalFile[i].revenue =
                       C19_FirstPresent(rawHistorical[i], Aliases("revenue")).num

\* C17: when the inventory sheet holds zero plans or the historical sheet holds
\* zero records, the upload does not fail: once the operator has submitted the
\* two sheets the wizard has moved on to the review step and shows no warning,
\* with as many plans as the inventory sheet has rows (none for an empty one).
C17_EmptyInputIsNotAnError ==
    (/\ nUserActions > 0
     /\ rawInventory = <<>> \/ rawHistorical = <<>>
     /\ \A i \in DOMAIN rawInventory : C16_HasId(rawInventory[i], Aliases("planId")))
    => /\ activeStep = 1
       /\ Len(inventoryData) = Len(rawInventory)
       /\ warning = Undefined

\* The list of one publisher in a RankingResult, empty when it has none.
C12_ListOf(result, pub) ==
    IF pub \in DOMAIN result.byPublisher THEN result.byPublisher[pub] ELSE <<>>

\* The scored plans assigned to pub that come before entry: a higher adjusted
\* score, or the same score and an earlier planId.
C12_PeersBefore(entry, pub) ==
    {j \in DOMAIN scoredPlans :
        /\ Includes(scoredPlans[j].publisher, pub)
        /\ \/ scoredPlans[j].adjustedScore > entry.adjustedScore
           \/ /\ scoredPlans[j].adjustedScore = entry.adjustedScore
              /\ PlanIdIndex(scoredPlans[j].planId) < PlanIdIndex(entry.planId)}

C13_HasRecords(plan, records) ==
    \E k \in DOMAIN records :
        records[k].planId = plan.planId \/ records[k].subcategory = plan.subcategory

\* The plans of the request are all scored, in their order, and each plan
\* without records has metrics of 0 and a finalRank among all plans.
C13_AllPlansKept(request) ==
    /\ Len(scoredPlans) = Len(request.user_input)
    /\ \A i \in DOMAIN request.user_input :
          /\ scoredPlans[i].planId = request.user_input[i].planId
          /\ ~C13_HasRecords(request.user_input[i], request.historical_data)
             => /\ scoredPlans[i].ctr = Rat(0, 1)
                /\ scoredPlans[i].epc = Rat(0, 1)
                /\ scoredPlans[i].avgRevenue = Rat(0, 1)
                /\ \E k \in DOMAIN Val(rankingData).allPublishers :
                      /\ Val(rankingData).allPublishers[k].planId
                         = request.user_input[i].planId
                      /\ Val(rankingData).allPublishers[k].finalRank
                         \in 1..Len(request.user_input)

C14_ExpectedClicksByTag ==
    rankingData # Undefined =>
        \A i \in DOMAIN scoredPlans :
            /\ Includes(scoredPlans[i].tags, "Mandatory")
               => /\ RatMul(scoredPlans[i].expectedClicks, Rat(100, 1))
                     = RatMul(Rat(scoredPlans[i].distributionCount, 1), scoredPlans[i].ctr)
                  /\ (scoredPlans[i].distributionCount = 200
                      /\ scoredPlans[i].ctr = Rat(500, 100))
                     => scoredPlans[i].expectedClicks = Rat(10, 1)
            /\ Includes(scoredPlans[i].tags, "FOC")
               => scoredPlans[i].expectedClicks = Rat(scoredPlans[i].clicksToBeDelivered, 1)
            /\ (Includes(scoredPlans[i].tags, "Paid") /\ scoredPlans[i].epc.num > 0)
               => RatMul(scoredPlans[i].expectedClicks, scoredPlans[i].epc)
                  = Rat(scoredPlans[i].budgetCap, 1)
            /\ (Includes(scoredPlans[i].tags, "Paid") /\ scoredPlans[i].epc.num = 0)
               => scoredPlans[i].expectedClicks = Rat(0, 1)

\* C14 witness: a Mandatory plan with distributionCount 200 and a ctr of 5.00
\* was given 10 expected clicks, next to a Paid plan with budgetCap 1000 and an
\* epc of 14 that was given 1000 / 14 expected clicks.
C14_Witness ==
    /\ rankingData # Undefined
    /\ \E i, j \in DOMAIN scoredPlans :
          /\ Includes(scoredPlans[i].tags, "Mandatory")
          /\ scoredPlans[i].distributionCount = 200
          /\ scoredPlans[i].ctr = Rat(5, 1)
          /\ scoredPlans[i].expectedClicks = Rat(10, 1)
          /\ Includes(scoredPlans[j].tags, "Paid")
          /\ scoredPlans[j].budgetCap = 1000
          /\ scoredPlans[j].epc = Rat(14, 1)
          /\ scoredPlans[j].expectedClicks = Rat(500, 7)

\* The records the aggregation of a plan runs over.
C15_Records(request, i) ==
    MatchingRecords(request.user_input[i], request.historical_data)

C21_EditsSurviveAverageRevenue ==
    [][(loadingStats /\ ~loadingStats' /\ activeStep = 1 /\ activeStep' = 1
        /\ mountId' = mountId)
       => /\ DOMAIN plans' = DOMAIN plans
          /\ \A i \in DOMAIN plans :
                plans'[i] = [plans[i] EXCEPT !.avgRevenue = plans'[i].avgRevenue]]_vars

\* C24: activeStep stays in {0, 1, 2} and never rises by more than one step:
\* it becomes 1 only from 0 and 2 only from 1, whatever the interleaving of
\* step clicks with a process-data call in flight.
C24_StepsAdvanceOneAtATime ==
    [][/\ activeStep' \in 0..2
       /\ activeStep' > activeStep => activeStep' = activeStep + 1]_vars

RECURSIVE C26_IsSubsequence(_, _)
C26_IsSubsequence(s, t) ==
    IF s = <<>> THEN TRUE
    ELSE IF t = <<>> THEN FALSE
    ELSE IF Head(s) = Head(t) THEN C26_IsSubsequence(Tail(s), Tail(t))
    ELSE C26_IsSubsequence(s, Tail(t))

\* C26: a submission saves the plans one by one in list order, each at most
\* once; a failed save does not stop the later saves; the success and failed
\* counts add up to the number of plans, the success count being the number of
\* documents written; and the process-data request is sent with every plan
\* whether saves failed or not.
C26_SaveAllThenProcess ==
    [][(HandleProcessData /\ isSubmitting')
       => /\ firebaseSaveStatus'.success + firebaseSaveStatus'.failed = Len(plans)
          /\ Len(store') = Len(store) + firebaseSaveStatus'.success
          /\ SubSeq(store', 1, Len(store)) = store
          /\ C26_IsSubsequence(
                [k \in 1..(Len(store') - Len(store)) |-> store'[Len(store) + k].planId],
                [i \in DOMAIN plans |-> plans[i].planId])
          /\ Len(inFlight') = Len(inFlight) + 1
          /\ Len(inFlight'[Len(inFlight')].user_input) = Len(plans)]_vars

\* C26 witness: the save of the first plan failed, the second plan was saved
\* after it, and the request was sent.
C26_Witness ==
    /\ isSubmitting
    /\ Len(plans) = 2
    /\ firebaseSaveStatus = [success |-> 1, failed |-> 1]
    /\ DocsOf(store, plans[1].planId) = <<>>
    /\ Len(DocsOf(store, plans[2].planId)) = 2
    /\ inFlight # <<>>

\* An edit handler is called from the displayed row index.
C22_EditOnRow(index) ==
    \/ \E tag \in Tags : HandleTagSelect(index, tag)
    \/ \E value \in BudgetTexts : HandleBudgetChange(index, value)
    \/ \E publisher \in Publishers : HandlePublisherChange(index, publisher)
    \/ HandleSelectAllPublishers(index)
    \/ HandleClearAllPublishers(index)
    \/ \E value \in CountTexts : HandleDistributionCountChange(index, value)
    \/ \E value \in CountTexts : HandleClicksToBeDeliveredChange(index, value)

\* C22: whatever the search query, an edit triggered on a displayed row changes
\* the plan displayed on that row, identified by its planId, and no other plan.
C22_EditChangesTheDisplayedPlan ==
    [][\A index \in DOMAIN FilteredPlans(plans, searchQuery) :
          C22_EditOnRow(index)
          => \A i \in DOMAIN plans :
                plans'[i] # plans[i]
                => plans[i].planId = FilteredPlans(plans, searchQuery)[index].planId]_vars


\* C23: what the upload form hands to onProcessed is the successful parse of the
\* inventory file selected at that moment, whatever files were selected,
\* removed or re-selected before and in whatever order their reads completed.
C23_HandsOverTheSelectedFile ==
    [][(activeStep = 0 /\ activeStep' = 1) =>
          LET parsedData == ParseInventoryReport(FileRows(Val(inventoryFile)), store)
          IN  /\ InventoryAccepted(parsedData)
              /\ inventoryData' = parsedData]_vars


\* The document saved last for a plan id: {} when there is none.
C25_LastSaved(docs, planId) ==
    LET ks == {k \in DOMAIN docs : docs[k].planId = planId}
    IN  IF ks = {} THEN {} ELSE {docs[CHOOSE k \in ks : \A j \in ks : j <= k]}

\* A loaded plan carries the values of a saved document, and is not edited.
C25_Resumes(plan, doc) ==
    /\ plan.planId = doc.planId
    /\ plan.tags = doc.tags
    /\ plan.publisher = doc.publisher
    /\ plan.subcategory = doc.subcategory
    /\ plan.brand_name = doc.brand_name
    /\ plan.budgetCap = doc.budgetCap
    /\ plan.distributionCount = doc.distributionCount
    /\ plan.clicksToBeDelivered = doc.clicksToBeDelivered
    /\ plan.isEdited = FALSE

C27_Accepted(plan) ==
    /\ Len(plan.publisher) # 0
    /\ Includes(plan.tags, "Mandatory") => plan.distributionCount # Undefined
    /\ Includes(plan.tags, "FOC") => plan.clicksToBeDelivered # Undefined

\* C27: savePlanToFirebase adds one document for a plan with a publisher and,
\* for Mandatory or FOC, its count set; for any other plan it throws and the
\* store is unchanged. The document has a budgetCap only for Paid, a
\* distributionCount only for Mandatory, clicksToBeDelivered only for FOC.
C27_SaveWritesOnlyCompletePlans ==
    [][\A index \in 1..2 :
          SavePlanToFirebase(index) =>
             IF C27_Accepted(plans[index])
             THEN /\ Len(store') = Len(store) + 1
                  /\ SubSeq(store', 1, Len(store)) = store
                  /\ LET doc == store'[Len(store')]
                     IN  /\ doc.planId = plans[index].planId
                         /\ doc.budgetCap # Undefined
                               => Includes(plans[index].tags, "Paid")
                         /\ doc.distributionCount # Undefined
                               => Includes(plans[index].tags, "Mandatory")
                         /\ doc.clicksToBeDelivered # Undefined
                               => Includes(plans[index].tags, "FOC")
             ELSE store' = store]_vars

\* The save of a plan without a publisher threw and the save of a complete
\* plan wrote its document; the first plan holds fields of other tags.
C27_Witness ==
    /\ activeStep = 1
    /\ nUserActions = 2
    /\ Len(plans) = 2
    /\ Len(plans[1].publisher) = 0
    /\ C27_Accepted(plans[2])
    /\ plans[2].distributionCount = Undefined
    /\ store = <<PlanRecord(plans[2])>>
    /\ store[1].budgetCap = Num(0)
    /\ store[1].distributionCount = Undefined

C30_CsvHandOffRoundTrip ==
    [][(HandleProcessData /\ isSubmitting') =>
          LET request == inFlight'[Len(inFlight')]
              parsed == request.normalizedUserInput
              built == request.user_input
          IN  /\ Len(parsed) = Len(plans)
              /\ \A i \in DOMAIN plans :
                    /\ i \in DOMAIN parsed
                    /\ parsed[i].plan_id = Chars(built[i].planId)
                    /\ Join(parsed[i].publisher, ";") = CsvCell(built[i], "publisher")
                    /\ Join(parsed[i].tags, ";") = CsvCell(built[i], "tags")
                    /\ parsed[i].brand_name = Chars(built[i].brand_name)
                    /\ parsed[i].subcategory = Chars(built[i].subcategory)
                    /\ parsed[i].budget_cap = built[i].budgetCap
                    /\ parsed[i].distribution = built[i].distributionCount
                    /\ parsed[i].clicks_to_be_delivered =
                          built[i].clicksToBeDelivered]_vars

====
